---- MODULE Spec2Model ----
(***************************************************************************)
(* The non-blocking connection of dbus/src/nonblock.rs: the reply table,   *)
(* the filter table, the dispatch loop process_all with the callbacks it   *)
(* invokes (which may re-enter the connection), and the MethodReply        *)
(* future returned by Proxy::method_call.                                  *)
(***************************************************************************)
EXTENDS Integers, Sequences, FiniteSets, TLC

\* ----------------------------------------------------------------- bounds
MaxSerial == 2     \* the channel hands out serials 1..MaxSerial, then sends fail
MaxFilters == 2    \* start_receive is called while filter_nextid < MaxFilters
MaxMsgs == 2       \* inbound messages the transport delivers in a run
MaxCalls == 1      \* method_call invocations in a run
MaxPolls == 3      \* polls of one MethodReply in a run
MaxNest == 2       \* process_all activations on the call stack at once
NWakers == 2       \* distinct task wakers a poll may carry

Serials == 1..MaxSerial
Members == {1, 2}            \* the member header of a message
Rules == {0} \cup Members    \* a MatchRule: 0 has no field set, m requires member m
Bodies == {0, 5}             \* the arguments: 5 reads as the expected type, 0 does not
Wakers == 1..NWakers

\* A message: mid is the identity of the message instance, rs its reply serial
\* (0: the header is absent), call whether it is a method call expecting a reply.
\* The messages of the dispatch specification differ in what routes them; those of
\* the method-call specification are method returns that differ in what they carry;
\* those of the fair specification differ in the route they take.
MsgShapes == [rs : 0..MaxSerial, member : Members, call : BOOLEAN, body : {5}]
RoutedShapes == [rs : 0..MaxSerial, member : {1}, call : BOOLEAN, body : {5}]
ReturnShapes == [rs : Serials, member : {1}, call : {FALSE}, body : Bodies]
NoMsg == [mid |-> 0, rs |-> 0, member |-> 0, call |-> FALSE, body |-> 0]
MkMsg(id, s) == [mid |-> id, rs |-> s.rs, member |-> s.member, call |-> s.call, body |-> s.body]

VARIABLES
  inbound,          \* channel: buffered inbound messages, in pop_message order
  nextSerial,       \* channel: the serial the next successful send returns
  arrived,          \* channel: number of messages the transport has delivered
  replies,          \* Connection.replies: serial -> reply callback
  filters,          \* Connection.filters: subscription id -> (rule, callback)
  filter_nextid,    \* Connection.filter_nextid
  repliesBorrowed,  \* the RefCell of replies is mutably borrowed
  filtersBorrowed,  \* the RefCell of filters is mutably borrowed
  stack,            \* activations: process_all and the callbacks it is running
  panic,            \* "" or the place that panicked
  mr,               \* per method call: the MRInner cell behind Arc<Mutex<..>>
  readfn,           \* per method call: MethodReply.1 is Some
  ret,              \* what the last completed call returned
  trace,            \* history: per message, what process_all did with it
  wakes,            \* history: how often each waker was woken
  calls             \* history: per method call, its serial and its polls

vars == <<inbound, nextSerial, arrived, replies, filters, filter_nextid,
          repliesBorrowed, filtersBorrowed, stack, panic, mr, readfn, ret, trace,
          wakes, calls>>

chanVars == <<inbound, nextSerial, arrived>>
tableVars == <<replies, filters, filter_nextid>>
futVars == <<mr, readfn, wakes, calls>>

\* ------------------------------------------------------------ collections
\* HashMap::insert / BTreeMap::insert: the new value replaces one under the key.
MapInsert(m, k, v) == [x \in DOMAIN m \cup {k} |-> IF x = k THEN v ELSE m[x]]
\* HashMap::remove / BTreeMap::remove.
MapRemove(m, k) == [x \in DOMAIN m \ {k} |-> m[x]]
EmptyMap == [x \in {} |-> 0]

\* A dispatch that looks the entry up and leaves it in the table.
TakeReplyKeeps(tbl, serial) == tbl
\* The reply entry under a serial is taken out of the table (line 91).
TakeReply(tbl, serial) == MapRemove(tbl, serial)

Top == stack[Len(stack)]
Pop(s) == SubSeq(s, 1, Len(s) - 1)
\* A reply callback: under is the serial it was registered under, which names it
\* (the channel hands out each serial once); cell is the method call it completes,
\* 0 for a callback of the user.
NoCb == [under |-> 0, cell |-> 0]
\* A filter entry: f names the callback by the id start_receive gave it.
NoEnt == [rule |-> 0, f |-> -1]
Frame(t, cb, key, v, m) == [t |-> t, cb |-> cb, key |-> key, v |-> v, m |-> m]
PaFrame == Frame("pa", NoCb, 0, NoEnt, NoMsg)
Nesting == Cardinality({i \in 1..Len(stack) : stack[i].t = "pa"})

\* ------------------------------------------------------------------- Init
Neither == [st |-> "Neither", ok |-> FALSE, msg |-> NoMsg, waker |-> 0]
NoRet == [op |-> "", some |-> FALSE, val |-> 0]

Init ==
  /\ inbound = <<>>
  /\ nextSerial = 1
  /\ arrived = 0
  /\ replies = EmptyMap
  /\ filters = EmptyMap
  /\ filter_nextid = 0
  /\ repliesBorrowed = FALSE
  /\ filtersBorrowed = FALSE
  /\ stack = <<>>
  /\ panic = ""
  /\ mr = <<>>
  /\ readfn = <<>>
  /\ ret = NoRet
  /\ trace = <<>>
  /\ wakes = [w \in Wakers |-> 0]
  /\ calls = <<>>

\* ---------------------------------------------------------- collaborators
\* MatchRule::matches: a rule with no field set matches every message.
Matches(rule, msg) == rule = 0 \/ rule = msg.member
\* channel::default_reply: Some for a method call that expects a reply.
DefaultReply(msg) == msg.call
\* Message::read_all by the typed reader of the call: the arguments or an error.
ReadAll(msg) ==
  IF msg.body = 0 THEN [ok |-> FALSE, v |-> 0, err |-> "read_all", mid |-> msg.mid]
  ELSE [ok |-> TRUE, v |-> msg.body, err |-> "", mid |-> msg.mid]
\* Channel::send: Ok(serial) with a fresh serial, or Err(()).
SendOutcomes == IF nextSerial <= MaxSerial THEN BOOLEAN ELSE {FALSE}

\* ----------------------------------------------------------------- helpers
Ret(op, some, val) == [op |-> op, some |-> some, val |-> val]
\* Per message: its reply serial; ent, whether its serial had a reply entry when
\* process_all popped it (-1: not popped yet); the reply callbacks and the filter
\* callbacks called with it; the lookups of its serial in the reply table, the scans
\* of the filters and the default replies sent for it.
NoTrace == [rs |-> 0, ent |-> -1, reply |-> <<>>, filter |-> <<>>, looked |-> 0,
            scans |-> 0, dflt |-> 0]
Min(S) == CHOOSE x \in S : \A y \in S : x <= y
Ent(msg) == IF msg.rs # 0 /\ msg.rs \in DOMAIN replies THEN 1 ELSE 0

\* A caller of the connection's methods: the external driver when nothing is
\* running, or the body of a user callback that process_all is invoking.
CanCall ==
  /\ panic = ""
  /\ IF stack = <<>> THEN TRUE
     ELSE Top.t = "fcb" \/ (Top.t = "rcb" /\ Top.cb.cell = 0)

\* ------------------------------------------------------- NonblockReply
\* send_with_reply(msg, f): channel.send(msg).map(|x| { replies.borrow_mut().insert(x, f); x })
\* cell names f: 0 for a callback of the user, c for the completion of method call c.
SendWithReplyBody(op, ok, cell) ==
  IF ~ok
  THEN /\ ret' = Ret(op, FALSE, 0)
       /\ UNCHANGED <<nextSerial, replies, panic>>
  ELSE /\ nextSerial' = nextSerial + 1
       /\ IF repliesBorrowed
          THEN /\ panic' = "send_with_reply"
               /\ ret' = NoRet
               /\ UNCHANGED replies
          ELSE /\ replies' = MapInsert(replies, nextSerial, [under |-> nextSerial, cell |-> cell])
               /\ ret' = Ret(op, TRUE, nextSerial)
               /\ UNCHANGED panic

SendWithReply ==
  /\ CanCall
  /\ \E ok \in SendOutcomes : SendWithReplyBody("send_with_reply", ok, 0)
  /\ UNCHANGED <<inbound, arrived, filters, filter_nextid, repliesBorrowed, stack,
                 trace, futVars>>
  /\ UNCHANGED filtersBorrowed

\* cancel_reply(id): replies.borrow_mut().remove(&id)
CancelReplyId(id) ==
  /\ CanCall
  /\ IF repliesBorrowed
     THEN /\ panic' = "cancel_reply"
          /\ ret' = NoRet
          /\ UNCHANGED replies
     ELSE /\ replies' = MapRemove(replies, id)
          /\ ret' = IF id \in DOMAIN replies
                    THEN Ret("cancel_reply", TRUE, replies[id].under)
                    ELSE Ret("cancel_reply", FALSE, 0)
          /\ UNCHANGED panic
  /\ UNCHANGED <<chanVars, filters, filter_nextid, repliesBorrowed, stack, trace, futVars>>
  /\ UNCHANGED filtersBorrowed

CancelReply == \E id \in Serials : CancelReplyId(id)

\* ----------------------------------------------------- MatchingReceiver
\* A counter that start_receive reads and does not advance.
NextIdSame(id) == id
\* filter_nextid.set(id+1), line 67.
NextId(id) == id + 1

\* start_receive(m, f): the counter's value is the id; the entry is inserted under it.
StartReceive ==
  /\ CanCall
  /\ filter_nextid < MaxFilters
  /\ \E rule \in Rules :
       LET id == filter_nextid IN
       /\ filter_nextid' = NextId(id)
       /\ IF filtersBorrowed
          THEN /\ panic' = "start_receive"
               /\ ret' = NoRet
               /\ UNCHANGED filters
          ELSE /\ filters' = MapInsert(filters, id, [rule |-> rule, f |-> id])
               /\ ret' = Ret("start_receive", TRUE, id)
               /\ UNCHANGED panic
  /\ UNCHANGED <<chanVars, replies, repliesBorrowed, filtersBorrowed, stack, trace, futVars>>

\* stop_receive(id): filters.borrow_mut().remove(&id)
StopReceiveId(id) ==
  /\ CanCall
  /\ IF filtersBorrowed
     THEN /\ panic' = "stop_receive"
          /\ ret' = NoRet
          /\ UNCHANGED filters
     ELSE /\ filters' = MapRemove(filters, id)
          /\ ret' = IF id \in DOMAIN filters
                    THEN Ret("stop_receive", TRUE, filters[id].f)
                    ELSE Ret("stop_receive", FALSE, 0)
          /\ UNCHANGED panic
  /\ UNCHANGED <<chanVars, replies, filter_nextid, repliesBorrowed, filtersBorrowed,
                 stack, trace, futVars>>

StopReceive == \E id \in 0..(MaxFilters - 1) : StopReceiveId(id)

\* ------------------------------------------------------------- read_write
\* A read_write that dispatches what it has read.
ReadWriteDispatches(Shapes) ==
  /\ CanCall
  /\ stack = <<>>
  /\ \/ /\ ret' = Ret("read_write", FALSE, 0)
        /\ UNCHANGED <<inbound, arrived, trace>>
     \/ /\ arrived < MaxMsgs
        /\ \E s \in Shapes :
             /\ inbound' = Append(inbound, MkMsg(arrived + 1, s))
             /\ trace' = Append(trace, [NoTrace EXCEPT !.rs = s.rs])
        /\ arrived' = arrived + 1
        /\ ret' = Ret("read_write", TRUE, 0)
  /\ stack' = Append(stack, PaFrame)
  /\ UNCHANGED <<nextSerial, tableVars, repliesBorrowed, panic, futVars>>
  /\ UNCHANGED filtersBorrowed
\* channel.read_write(Some(0)).map_err(..): the transport fails, or it succeeds and
\* may have buffered one more inbound message. It is the reactor that calls it (line
\* 80), between dispatches.
ReadWriteOf(Shapes) ==
  /\ CanCall
  /\ stack = <<>>
  /\ \/ /\ ret' = Ret("read_write", FALSE, 0)
        /\ UNCHANGED <<inbound, arrived, trace>>
     \/ /\ ret' = Ret("read_write", TRUE, 0)
        /\ UNCHANGED <<inbound, arrived, trace>>
     \/ /\ arrived < MaxMsgs
        /\ \E s \in Shapes :
             /\ inbound' = Append(inbound, MkMsg(arrived + 1, s))
             /\ trace' = Append(trace, [NoTrace EXCEPT !.rs = s.rs])
        /\ arrived' = arrived + 1
        /\ ret' = Ret("read_write", TRUE, 0)
  /\ UNCHANGED <<nextSerial, tableVars, repliesBorrowed, stack, panic, futVars>>
  /\ UNCHANGED filtersBorrowed

ReadWrite == ReadWriteOf(MsgShapes)
ReadWriteRouted == ReadWriteOf(RoutedShapes)
ReadWriteReturns == ReadWriteOf(ReturnShapes)

\* ---------------------------------------------------------- MethodReply
ReadyOk(msg) == [st |-> "Ready", ok |-> TRUE, msg |-> msg, waker |-> 0]
\* Ready(Err(Error::new_failed("Failed to send message")))
ReadyErr == [st |-> "Ready", ok |-> FALSE, msg |-> NoMsg, waker |-> 0]
PendingW(w) == [st |-> "Pending", ok |-> FALSE, msg |-> NoMsg, waker |-> w]
NoRes == [ok |-> FALSE, v |-> 0, err |-> "", mid |-> 0]
FailedToSend == [ok |-> FALSE, v |-> 0, err |-> "Failed to send message", mid |-> 0]
PollPending == [ready |-> FALSE, r |-> NoRes]
PollReady(r) == [ready |-> TRUE, r |-> r]

\* r.and_then(readfn) on the Result<Message, Error> of a Ready cell.
AndThenRead(inner) == IF inner.ok THEN ReadAll(inner.msg) ELSE FailedToSend

\* A method_call that ignores the result of send_with_reply.
InitialCellIgnoresSend(ok) == Neither
\* The cell method_call returns with: Neither, or Ready(Err) when the send failed.
InitialCell(ok) == IF ok THEN Neither ELSE ReadyErr

\* A completion that stores the reply and wakes nobody.
DeliverWithoutWake(inner, msg) == [inner |-> ReadyOk(msg), wake |-> 0]
\* A completion that stores the reply only when a consumer is waiting for it.
DeliverOnlyToWaiter(inner, msg) ==
  [inner |-> IF inner.st = "Pending" THEN ReadyOk(msg) ELSE inner,
   wake |-> IF inner.st = "Pending" THEN inner.waker ELSE 0]
\* The completion callback of method_call, under the cell's lock:
\* old = mem::replace(inner, Ready(Ok(msg))); if let Pending(waker) = old { waker.wake() }
Deliver(inner, msg) ==
  [inner |-> ReadyOk(msg), wake |-> IF inner.st = "Pending" THEN inner.waker ELSE 0]

\* A poll that keeps the waker an earlier poll stored.
PollCellKeepsWaker(inner, rf, w) ==
  IF inner.st = "Ready"
  THEN IF rf
       THEN [inner |-> Neither, readfn |-> FALSE, panic |-> FALSE,
             res |-> PollReady(AndThenRead(inner))]
       ELSE [inner |-> Neither, readfn |-> rf, panic |-> TRUE, res |-> PollPending]
  ELSE [inner |-> IF inner.st = "Pending" THEN inner ELSE PendingW(w),
        readfn |-> rf, panic |-> FALSE, res |-> PollPending]
\* MethodReply::poll with the waker w, on the cell and on self.1 (rf: it is Some).
PollCell(inner, rf, w) ==
  IF inner.st = "Ready"
  THEN IF rf
       THEN [inner |-> Neither, readfn |-> FALSE, panic |-> FALSE,
             res |-> PollReady(AndThenRead(inner))]
       ELSE [inner |-> Neither, readfn |-> rf, panic |-> TRUE, res |-> PollPending]
  ELSE [inner |-> PendingW(w), readfn |-> rf, panic |-> FALSE, res |-> PollPending]

\* Per method call: the serial its send returned (0: the send failed), the results
\* of its polls and their wakers, the message its completion callback was called
\* with, the number of polls made before that (-1: not called) and before
\* process_all first handled a message with its serial (-1: none), and the waker
\* the completion woke (0: none).
NewCall(serial) ==
  [serial |-> serial, polls |-> <<>>, wakers |-> <<>>, delivered |-> NoMsg,
   deliveredAt |-> -1, handledAt |-> -1, woken |-> 0]
MarkHandled(cs, rs) ==
  [c \in DOMAIN cs |->
     IF rs # 0 /\ cs[c].serial = rs /\ cs[c].handledAt = -1
     THEN [cs[c] EXCEPT !.handledAt = Len(cs[c].polls)]
     ELSE cs[c]]

\* Proxy::method_call: a new cell, the completion callback registered by
\* send_with_reply, and the cell set to Ready(Err) when the send failed. When
\* send_with_reply panics, no future is returned.
MethodCall ==
  /\ CanCall
  /\ Len(mr) < MaxCalls
  /\ \E ok \in SendOutcomes :
       /\ SendWithReplyBody("method_call", ok, Len(mr) + 1)
       /\ IF ok /\ repliesBorrowed
          THEN UNCHANGED <<mr, readfn, calls>>
          ELSE /\ mr' = Append(mr, InitialCell(ok))
               /\ readfn' = Append(readfn, TRUE)
               /\ calls' = Append(calls, NewCall(IF ok THEN nextSerial ELSE 0))
  /\ UNCHANGED <<inbound, arrived, filters, filter_nextid, repliesBorrowed, stack,
                 trace, wakes>>
  /\ UNCHANGED filtersBorrowed

\* A poll of the future of call c by its consumer, which may run on another thread
\* than the dispatch: the cell's lock makes it one step.
Poll ==
  /\ panic = ""
  /\ \E c \in 1..Len(mr), w \in Wakers :
       LET p == PollCell(mr[c], readfn[c], w) IN
       /\ Len(calls[c].polls) < MaxPolls
       /\ mr' = [mr EXCEPT ![c] = p.inner]
       /\ readfn' = [readfn EXCEPT ![c] = p.readfn]
       /\ panic' = IF p.panic THEN "poll" ELSE panic
       /\ calls' = [calls EXCEPT ![c].polls = IF p.panic THEN @ ELSE Append(@, p.res),
                                 ![c].wakers = Append(@, w)]
       /\ ret' = IF p.panic THEN NoRet ELSE Ret("poll", p.res.ready, c)
  /\ UNCHANGED <<chanVars, tableVars, repliesBorrowed, stack, trace, wakes>>
  /\ UNCHANGED filtersBorrowed

\* ------------------------------------------------------------ process_all
\* A scan that keeps the last matching key instead of stopping at the first.
LastMatch(flt, msg) ==
  LET S == {k \in DOMAIN flt : Matches(flt[k].rule, msg)}
  IN IF S = {} THEN -1 ELSE CHOOSE x \in S : \A y \in S : y <= x
\* filters.iter_mut().find(|(_, v)| v.0.matches(&msg)).map(|(k, _)| *k): the first
\* key in ascending order whose rule matches, -1 for None.
FirstMatch(flt, msg) ==
  LET S == {k \in DOMAIN flt : Matches(flt[k].rule, msg)}
  IN IF S = {} THEN -1 ELSE Min(S)

\* What the loop body does with a popped message. The RefMut made by
\* replies.borrow_mut() in the condition of the if let of line 91 lives to the end
\* of that if let, so the table stays borrowed while f(msg, self) runs, and a
\* borrow_mut() of it panics until f returns. The RefMut of the filters (line 96)
\* is dropped on line 99, before the filter callback is called.
Route(msg) ==
  IF msg.rs # 0 /\ repliesBorrowed THEN [kind |-> "panic", key |-> 0]
  ELSE IF msg.rs # 0 /\ msg.rs \in DOMAIN replies THEN [kind |-> "reply", key |-> msg.rs]
  ELSE IF filtersBorrowed THEN [kind |-> "panic", key |-> 0]
  ELSE LET k == FirstMatch(filters, msg)
       IN IF k # -1 THEN [kind |-> "filter", key |-> k]
          ELSE [kind |-> "default", key |-> 0]

InProcessAll == panic = "" /\ stack # <<>> /\ Top.t = "pa"
Looked(msg) == IF msg.rs # 0 THEN 1 ELSE 0

\* A process_all that gives up on the requests still waiting when it is called.
ProcessAllExpires ==
  /\ CanCall
  /\ Nesting < MaxNest
  /\ stack' = Append(stack, PaFrame)
  /\ replies' = EmptyMap
  /\ ret' = NoRet
  /\ UNCHANGED <<chanVars, filters, filter_nextid, repliesBorrowed, filtersBorrowed,
                 panic, trace, futVars>>
\* process_all is called: by the reactor, or by a callback of the user.
ProcessAllBegin ==
  /\ CanCall
  /\ Nesting < MaxNest
  /\ stack' = Append(stack, PaFrame)
  /\ ret' = NoRet
  /\ UNCHANGED <<chanVars, tableVars, repliesBorrowed, panic, trace, futVars>>
  /\ UNCHANGED filtersBorrowed

\* A loop that may end while messages are still buffered.
ProcessAllReturnsEarly ==
  /\ InProcessAll
  /\ stack' = Pop(stack)
  /\ ret' = NoRet
  /\ UNCHANGED <<chanVars, tableVars, repliesBorrowed, panic, trace, futVars>>
  /\ UNCHANGED filtersBorrowed
\* pop_message() returned None: the loop ends.
ProcessAllReturn ==
  /\ InProcessAll
  /\ inbound = <<>>
  /\ stack' = Pop(stack)
  /\ ret' = NoRet
  /\ UNCHANGED <<chanVars, tableVars, repliesBorrowed, panic, trace, futVars>>
  /\ UNCHANGED filtersBorrowed

\* The table the loop body has to borrow (line 91, line 96) is already borrowed.
DispatchBorrowPanic ==
  /\ InProcessAll
  /\ inbound # <<>>
  /\ LET msg == Head(inbound) IN
     /\ Route(msg).kind = "panic"
     /\ trace' = [trace EXCEPT ![msg.mid].ent = Ent(msg)]
  /\ inbound' = Tail(inbound)
  /\ panic' = "process_all"
  /\ ret' = NoRet
  /\ UNCHANGED <<nextSerial, arrived, tableVars, repliesBorrowed, stack, futVars>>
  /\ UNCHANGED filtersBorrowed

\* Lines 90-93: the entry is removed and its callback called.
DispatchReply ==
  /\ InProcessAll
  /\ inbound # <<>>
  /\ LET msg == Head(inbound)
         r == Route(msg) IN
     /\ r.kind = "reply"
     /\ inbound' = Tail(inbound)
     /\ replies' = TakeReply(replies, r.key)
     /\ repliesBorrowed' = TRUE
     /\ stack' = Append(stack, Frame("rcb", replies[r.key], r.key, NoEnt, msg))
     /\ trace' = [trace EXCEPT ![msg.mid].ent = Ent(msg),
                               ![msg.mid].reply = Append(@, replies[r.key].under),
                               ![msg.mid].looked = @ + 1]
  /\ ret' = NoRet
  /\ UNCHANGED <<nextSerial, arrived, filters, filter_nextid, panic, futVars>>
  /\ UNCHANGED filtersBorrowed

\* A dispatch that calls the filter callback with the registry still borrowed.
FiltersStayBorrowed(held) == held
\* drop(filters), line 99: the borrow taken on line 96 ends before the call.
DropFilters(held) == FALSE

\* A dispatch that calls the callback of an entry it leaves in the registry.
TakeFilterKeeps(flt, k) == flt
\* filters.remove(&k), line 98: the matched entry is out of the registry.
TakeFilter(flt, k) == MapRemove(flt, k)

\* Lines 96-100: the first matching filter is taken out and its callback called.
DispatchFilter ==
  /\ InProcessAll
  /\ inbound # <<>>
  /\ LET msg == Head(inbound)
         r == Route(msg) IN
     /\ r.kind = "filter"
     /\ inbound' = Tail(inbound)
     /\ filters' = TakeFilter(filters, r.key)
     /\ filtersBorrowed' = DropFilters(TRUE)
     /\ stack' = Append(stack, Frame("fcb", NoCb, r.key, filters[r.key], msg))
     /\ trace' = [trace EXCEPT ![msg.mid].ent = Ent(msg),
                               ![msg.mid].filter = Append(@, filters[r.key].f),
                               ![msg.mid].looked = @ + Looked(msg),
                               ![msg.mid].scans = @ + 1]
     /\ calls' = MarkHandled(calls, msg.rs)
  /\ ret' = NoRet
  /\ UNCHANGED <<nextSerial, arrived, replies, filter_nextid, repliesBorrowed, panic,
                 mr, readfn, wakes>>

\* Lines 106-108: no reply entry and no filter; the default reply, if any, is sent
\* and the result of that send is dropped.
DispatchDefault ==
  /\ InProcessAll
  /\ inbound # <<>>
  /\ LET msg == Head(inbound)
         r == Route(msg) IN
     /\ r.kind = "default"
     /\ inbound' = Tail(inbound)
     /\ IF DefaultReply(msg)
        THEN /\ \E ok \in SendOutcomes : nextSerial' = IF ok THEN nextSerial + 1 ELSE nextSerial
             /\ trace' = [trace EXCEPT ![msg.mid].ent = Ent(msg),
                                       ![msg.mid].looked = @ + Looked(msg),
                                       ![msg.mid].scans = @ + 1,
                                       ![msg.mid].dflt = @ + 1]
        ELSE /\ UNCHANGED nextSerial
             /\ trace' = [trace EXCEPT ![msg.mid].ent = Ent(msg),
                                       ![msg.mid].looked = @ + Looked(msg),
                                       ![msg.mid].scans = @ + 1]
     /\ calls' = MarkHandled(calls, msg.rs)
  /\ ret' = NoRet
  /\ UNCHANGED <<arrived, tableVars, repliesBorrowed, stack, panic, mr, readfn, wakes>>
  /\ UNCHANGED filtersBorrowed

\* -------------------------------------------------------------- callbacks
\* The completion callback of a method call runs: lines 149-153, then line 93.
MethodReplyCallback ==
  /\ panic = ""
  /\ stack # <<>>
  /\ Top.t = "rcb"
  /\ Top.cb.cell # 0
  /\ LET c == Top.cb.cell
         d == Deliver(mr[c], Top.m) IN
     /\ mr' = [mr EXCEPT ![c] = d.inner]
     /\ wakes' = IF d.wake # 0 THEN [wakes EXCEPT ![d.wake] = @ + 1] ELSE wakes
     /\ calls' = [calls EXCEPT ![c].delivered = Top.m,
                               ![c].deliveredAt = Len(calls[c].polls),
                               ![c].handledAt = IF @ = -1 THEN Len(calls[c].polls) ELSE @,
                               ![c].woken = d.wake]
  /\ stack' = Pop(stack)
  /\ repliesBorrowed' = FALSE
  /\ ret' = NoRet
  /\ UNCHANGED <<chanVars, tableVars, panic, readfn, trace>>
  /\ UNCHANGED filtersBorrowed

\* A user reply callback returns: the if let of line 91 ends, the borrow with it.
ReplyCallbackReturn ==
  /\ panic = ""
  /\ stack # <<>>
  /\ Top.t = "rcb"
  /\ Top.cb.cell = 0
  /\ stack' = Pop(stack)
  /\ repliesBorrowed' = FALSE
  /\ ret' = NoRet
  /\ UNCHANGED <<chanVars, tableVars, panic, trace, futVars>>
  /\ UNCHANGED filtersBorrowed

\* A dispatch that leaves the entry out whatever the callback returned.
ReinsertNever(flt, k, v, keep) == flt
\* A dispatch that puts the entry back whatever the callback returned.
ReinsertAlways(flt, k, v, keep) == MapInsert(flt, k, v)
\* Lines 100-103: the entry goes back under its key iff the callback returned true.
Reinsert(flt, k, v, keep) == IF keep THEN MapInsert(flt, k, v) ELSE flt

\* A filter callback returns keep; ret is what it returned to process_all.
FilterCallbackReturn ==
  /\ panic = ""
  /\ stack # <<>>
  /\ Top.t = "fcb"
  /\ \E keep \in BOOLEAN :
       IF keep /\ filtersBorrowed
       THEN /\ panic' = "process_all"
            /\ ret' = NoRet
            /\ UNCHANGED <<filters, filtersBorrowed, stack>>
       ELSE /\ filters' = Reinsert(filters, Top.key, Top.v, keep)
            /\ ret' = Ret("filter", keep, Top.key)
            /\ stack' = Pop(stack)
            /\ filtersBorrowed' = FALSE
            /\ UNCHANGED panic
  /\ UNCHANGED <<chanVars, replies, filter_nextid, repliesBorrowed, trace, futVars>>

\* ------------------------------------------------------------------- Spec
\* The connection driven through its tables: user callbacks that re-enter it.
Next ==
  \/ SendWithReply
  \/ CancelReply
  \/ StartReceive
  \/ StopReceive
  \/ ReadWrite
  \/ ProcessAllBegin
  \/ ProcessAllReturn
  \/ DispatchBorrowPanic
  \/ DispatchReply
  \/ DispatchFilter
  \/ DispatchDefault
  \/ ReplyCallbackReturn
  \/ FilterCallbackReturn

Spec == Init /\ [][Next]_vars

\* The same connection when every callback returns and process_all, once called,
\* keeps running: its loop takes its next step, and a callback it called comes back.
Fairness ==
  /\ WF_vars(ProcessAllReturn)
  /\ WF_vars(DispatchBorrowPanic)
  /\ WF_vars(DispatchReply)
  /\ WF_vars(DispatchFilter)
  /\ WF_vars(DispatchDefault)
  /\ SF_vars(ReplyCallbackReturn)
  /\ SF_vars(FilterCallbackReturn)

\* What keeps a dispatch going: registrations, buffered messages, and callbacks
\* that register more and call process_all themselves.
LiveNext ==
  \/ SendWithReply
  \/ StartReceive
  \/ ReadWriteRouted
  \/ ProcessAllBegin
  \/ ProcessAllReturn
  \/ DispatchBorrowPanic
  \/ DispatchReply
  \/ DispatchFilter
  \/ DispatchDefault
  \/ ReplyCallbackReturn
  \/ FilterCallbackReturn

LiveSpec == Init /\ [][LiveNext]_vars /\ Fairness

\* The connection driven through Proxy::method_call and the futures it returns,
\* beside reply callbacks of the user.
FutureNext ==
  \/ MethodCall
  \/ Poll
  \/ SendWithReply
  \/ CancelReply
  \/ ReadWriteReturns
  \/ ProcessAllBegin
  \/ ProcessAllReturn
  \/ DispatchBorrowPanic
  \/ DispatchReply
  \/ DispatchDefault
  \/ MethodReplyCallback
  \/ ReplyCallbackReturn

FutureSpec == Init /\ [][FutureNext]_vars

\* ================================================================= claims
\* The calls of reply callback x so far, over all messages.
Fired(x) ==
  Cardinality({p \in UNION {{<<mid, i>> : i \in DOMAIN trace[mid].reply} : mid \in DOMAIN trace} :
                 trace[p[1]].reply[p[2]] = x})
Frames(t) == {i \in DOMAIN stack : stack[i].t = t}

\* C1: each registered reply callback is called at most once, and only by
\* process_all, with a message whose reply serial is the serial the callback was
\* registered under; a callback still in the table has not been called.
C1_ReplyCallbackAtMostOnce ==
  /\ \A x \in Serials : Fired(x) <= 1
  /\ \A x \in DOMAIN replies : Fired(x) = 0 /\ replies[x].under = x
  /\ \A mid \in DOMAIN trace : \A i \in DOMAIN trace[mid].reply :
       trace[mid].reply[i] = trace[mid].rs
  /\ \A i \in Frames("rcb") :
       /\ i > 1 /\ stack[i - 1].t = "pa"
       /\ stack[i].cb.under = stack[i].m.rs
       /\ Fired(stack[i].cb.under) = 1

\* C1 witness: a reply callback was called for one message, and a second message
\* with the same reply serial has been handled after it.
C1_Witness ==
  \E m1, m2 \in DOMAIN trace :
    /\ m1 # m2
    /\ trace[m1].reply # <<>>
    /\ trace[m2].rs = trace[m1].rs
    /\ trace[m2].ent = 0
    /\ trace[m2].scans = 1

\* C2: a reply callback that process_all is running can call send_with_reply or
\* cancel_reply on the same connection, and the call completes normally.
C2_ReplyCallbackMayReenter ==
  ~(stack # <<>> /\ Top.t = "rcb" /\ panic \in {"send_with_reply", "cancel_reply"})

\* C3: a message popped while its reply serial has a registered entry is given to
\* that entry's callback only: the entry is removed, the filters are not scanned, no
\* filter callback is called with it and no default reply is sent for it.
C3_ReplyEntryTakesMessage ==
  \A mid \in DOMAIN trace :
    trace[mid].ent = 1 =>
      /\ trace[mid].reply = <<trace[mid].rs>>
      /\ trace[mid].rs \notin DOMAIN replies
      /\ trace[mid].filter = <<>>
      /\ trace[mid].scans = 0
      /\ trace[mid].dflt = 0

\* C3, outside the abort: whenever the lookup of line 91 is reached without a
\* panic, the routing is as C3 says.
C3_RoutingUnlessAborted ==
  \A mid \in DOMAIN trace :
    (trace[mid].ent = 1 /\ trace[mid].looked > 0) =>
      /\ trace[mid].reply = <<trace[mid].rs>>
      /\ trace[mid].rs \notin DOMAIN replies
      /\ trace[mid].filter = <<>>
      /\ trace[mid].scans = 0
      /\ trace[mid].dflt = 0

\* C4: a message popped with a reply serial that has no registered entry is
\* offered to the filters exactly once and is given to no reply callback.
C4_UnregisteredReplyGoesToFilters ==
  \A mid \in DOMAIN trace :
    (trace[mid].rs # 0 /\ trace[mid].ent = 0) =>
      /\ trace[mid].scans = 1
      /\ trace[mid].reply = <<>>

\* C4, outside the abort: whenever the lookup of line 91 is reached without a
\* panic, the routing is as C4 says.
C4_RoutingUnlessAborted ==
  \A mid \in DOMAIN trace :
    (trace[mid].rs # 0 /\ trace[mid].ent = 0 /\ trace[mid].looked > 0) =>
      /\ trace[mid].looked = 1
      /\ trace[mid].scans = 1
      /\ trace[mid].reply = <<>>

\* C5: the filter callback called with a message is that of the entry with the
\* smallest subscription id whose rule matches it, and no second filter callback
\* is called with that message, whatever the first one returns.
C5_FirstMatchingFilterOnly ==
  /\ [](\A mid \in DOMAIN trace : Len(trace[mid].filter) <= 1)
  /\ [][(Len(stack') = Len(stack) + 1 /\ stack'[Len(stack')].t = "fcb") =>
          LET f == stack'[Len(stack')] IN
          /\ f.key \in DOMAIN filters
          /\ f.v = filters[f.key]
          /\ Matches(filters[f.key].rule, f.m)
          /\ \A j \in DOMAIN filters : j < f.key => ~Matches(filters[j].rule, f.m)
          /\ trace'[f.m.mid].filter = <<f.v.f>>]_vars

\* C5 witness: a filter callback has returned "do not keep" for a message that a
\* filter with a larger id, still registered, matches too; that one was not called.
C5_Witness ==
  /\ stack = <<>>
  /\ \E mid \in DOMAIN trace :
       /\ trace[mid].filter = <<0>>
       /\ 0 \notin DOMAIN filters
       /\ 1 \in DOMAIN filters
       /\ filters[1].rule = 0

\* C6: when a filter callback returns, its entry is absent if it returned "do not
\* keep" and present under the same id with the same rule and callback if it
\* returned "keep"; taking the entry out for the call and the return change no
\* other entry.
C6_KeepOrDrop ==
  /\ [][(stack # <<>> /\ Top.t = "fcb" /\ stack' = Pop(stack)) =>
          LET k == Top.key IN
          /\ ret'.op = "filter"
          /\ ret'.some => (k \in DOMAIN filters' /\ filters'[k] = Top.v)
          /\ ~ret'.some => k \notin DOMAIN filters'
          /\ DOMAIN filters' \ {k} = DOMAIN filters \ {k}
          /\ \A j \in DOMAIN filters \ {k} : filters'[j] = filters[j]]_vars
  /\ [][(Len(stack') = Len(stack) + 1 /\ stack'[Len(stack')].t = "fcb") =>
          LET k == stack'[Len(stack')].key IN
          /\ DOMAIN filters' = DOMAIN filters \ {k}
          /\ \A j \in DOMAIN filters' : filters'[j] = filters[j]]_vars

\* C6 witness: a filter callback has just returned "do not keep"; its entry is gone
\* and another entry is still there.
C6_Witness ==
  /\ ret = Ret("filter", FALSE, 0)
  /\ 0 \notin DOMAIN filters
  /\ 1 \in DOMAIN filters

\* C7: a send_with_reply whose send fails returns an error and leaves the reply
\* table as it was; the cell of a method_call whose send failed is Ready with the
\* "Failed to send message" error when method_call returns, its first poll returns
\* that error, and its completion callback is in no table and is never called.
C7_FailedSend ==
  /\ [](\A c \in DOMAIN calls :
          calls[c].serial = 0 =>
            /\ calls[c].deliveredAt = -1
            /\ \A x \in DOMAIN replies : replies[x].cell # c
            /\ \A i \in DOMAIN stack : stack[i].cb.cell # c
            /\ IF calls[c].polls = <<>> THEN mr[c] = ReadyErr
               ELSE calls[c].polls[1] = PollReady(FailedToSend))
  /\ [][(ret'.op \in {"send_with_reply", "method_call"} /\ ~ret'.some) =>
          (replies' = replies /\ nextSerial' = nextSerial)]_vars

\* C7 witness: a method call whose send failed has been polled, and process_all
\* has handled a message since.
C7_Witness ==
  \E c \in DOMAIN calls :
    /\ calls[c].serial = 0
    /\ calls[c].polls # <<>>
    /\ \E mid \in DOMAIN trace : trace[mid].ent >= 0

\* C8 as stated: for a method call whose send succeeded, every poll before
\* process_all has handled a message with its serial returns Pending, and the first
\* poll after that returns Ready.
C8_ReadyAfterReplyHandled ==
  \A c \in DOMAIN calls :
    calls[c].serial # 0 =>
      LET h == calls[c].handledAt IN
      /\ \A i \in DOMAIN calls[c].polls : (h = -1 \/ i <= h) => calls[c].polls[i] = PollPending
      /\ (h >= 0 /\ Len(calls[c].polls) > h) => calls[c].polls[h + 1].ready

\* C8 as amended: for a method call whose send succeeded, every poll before its
\* completion callback has run returns Pending; process_all calls that callback with
\* a message whose reply serial is the call's serial, popped while the entry was
\* registered, and the first poll after that returns Ready with the result read
\* from that message.
C8_ReadyAfterCompletion ==
  \A c \in DOMAIN calls :
    calls[c].serial # 0 =>
      LET d == calls[c].deliveredAt
          m == calls[c].delivered IN
      /\ \A i \in DOMAIN calls[c].polls : (d = -1 \/ i <= d) => calls[c].polls[i] = PollPending
      /\ (d >= 0 /\ Len(calls[c].polls) > d) => calls[c].polls[d + 1] = PollReady(ReadAll(m))
      /\ d >= 0 => (m.rs = calls[c].serial /\ trace[m.mid].ent = 1)
      /\ \A mid \in DOMAIN trace :
           trace[mid].reply = <<calls[c].serial>> =>
             \/ d >= 0 /\ m.mid = mid
             \/ \E i \in Frames("rcb") : stack[i].cb.cell = c /\ stack[i].m.mid = mid

\* C8 witness: a call was polled before its reply, then the reply was delivered and
\* the next poll returned the value read from it.
C8_Witness ==
  \E c \in DOMAIN calls :
    /\ calls[c].serial # 0
    /\ calls[c].deliveredAt >= 1
    /\ Len(calls[c].polls) > calls[c].deliveredAt
    /\ calls[c].polls[calls[c].deliveredAt + 1].r.ok

\* C9: once a poll of a method reply has returned Ready, no later poll of it
\* completes normally, with Pending or with Ready.
C9_SecondPollDetected ==
  \A c \in DOMAIN calls : \A i \in DOMAIN calls[c].polls :
    calls[c].polls[i].ready => i = Len(calls[c].polls)

\* C10: before the reply of a method call is delivered, every poll returns Pending
\* and leaves the cell Pending with the waker of the latest poll; the delivery wakes
\* the waker of the latest poll before it, once, and no other waker.
C10_LatestWakerOnly ==
  /\ \A c \in DOMAIN calls :
       calls[c].serial # 0 =>
         LET d == calls[c].deliveredAt
             n == Len(calls[c].wakers) IN
         /\ (d = -1 /\ n > 0) =>
              (mr[c] = PendingW(calls[c].wakers[n]) /\ calls[c].polls[n] = PollPending)
         /\ d = -1 => calls[c].woken = 0
         /\ d = 0 => calls[c].woken = 0
         /\ d > 0 => calls[c].woken = calls[c].wakers[d]
  /\ \A w \in Wakers : wakes[w] = Cardinality({c \in DOMAIN calls : calls[c].woken = w})

\* C10 witness: two polls with different wakers, then the delivery: the second
\* waker was woken and the first was not.
C10_Witness ==
  \E c \in DOMAIN calls :
    /\ calls[c].deliveredAt = 2
    /\ calls[c].wakers[1] # calls[c].wakers[2]
    /\ wakes[calls[c].wakers[2]] = 1
    /\ wakes[calls[c].wakers[1]] = 0

\* C11: a cancel_reply whose identifier has no entry in the reply table (never
\* registered, already fired or already cancelled) returns None and leaves the
\* reply table, the filter table, the subscription counter and the channel as
\* they were.
C11_CancelUnregistered ==
  [][\A id \in Serials \ DOMAIN replies :
       CancelReplyId(id) =>
         /\ ret' = Ret("cancel_reply", FALSE, 0)
         /\ UNCHANGED <<replies, filters, filter_nextid, chanVars>>]_vars

\* C11, outside a running reply callback: the call returns None and changes
\* nothing.
C11_UnlessBorrowed ==
  [][\A id \in Serials \ DOMAIN replies :
       (~repliesBorrowed /\ CancelReplyId(id)) =>
         /\ ret' = Ret("cancel_reply", FALSE, 0)
         /\ UNCHANGED <<replies, filters, filter_nextid, chanVars, panic, stack>>]_vars

\* A step of process_all that pops a message whose reply serial is x.
PopsReplyTo(x) ==
  /\ InProcessAll
  /\ inbound # <<>>
  /\ Head(inbound).rs = x
  /\ inbound' = Tail(inbound)

\* C12: a cancel_reply whose identifier has an entry returns that entry's callback
\* and removes that entry only; a callback that is out of the table is not called
\* by process_all and does not come back into the table, and a message popped with
\* its reply serial is offered to the filters, once, and to no reply callback.
C12_CancelRegistered ==
  /\ [][\A id \in DOMAIN replies :
          CancelReplyId(id) =>
            /\ ret' = Ret("cancel_reply", TRUE, replies[id].under)
            /\ replies' = MapRemove(replies, id)
            /\ UNCHANGED <<filters, filter_nextid, chanVars>>]_vars
  /\ [][\A x \in Serials :
          (x < nextSerial /\ x \notin DOMAIN replies) =>
            /\ x \notin DOMAIN replies'
            /\ Fired(x)' = Fired(x)
            /\ PopsReplyTo(x) =>
                 /\ trace'[Head(inbound).mid].scans = 1
                 /\ trace'[Head(inbound).mid].reply = <<>>]_vars

\* C12, outside a running reply callback.
C12_UnlessBorrowed ==
  /\ [][\A id \in DOMAIN replies :
          (~repliesBorrowed /\ CancelReplyId(id)) =>
            /\ ret' = Ret("cancel_reply", TRUE, replies[id].under)
            /\ replies' = MapRemove(replies, id)
            /\ UNCHANGED <<filters, filter_nextid, chanVars, panic, stack>>]_vars
  /\ [][\A x \in Serials :
          (x < nextSerial /\ x \notin DOMAIN replies) =>
            /\ x \notin DOMAIN replies'
            /\ Fired(x)' = Fired(x)
            /\ (~repliesBorrowed /\ PopsReplyTo(x)) =>
                 /\ trace'[Head(inbound).mid].scans = 1
                 /\ trace'[Head(inbound).mid].reply = <<>>]_vars

\* The messages process_all has popped so far.
Popped == arrived - Len(inbound)

\* C13: once called, process_all ends (it returns, or the dispatch has panicked)
\* when every callback it calls returns; while a process_all is running the
\* buffer only shrinks, one message per step from its head; the messages are
\* popped in the order they arrived; and when a process_all returns the buffer
\* is empty.
C13_ProcessAllDrains ==
  /\ (stack # <<>>) ~> (stack = <<>> \/ panic # "")
  /\ [](/\ \A i \in DOMAIN inbound : inbound[i].mid = Popped + i
        /\ \A mid \in DOMAIN trace : (trace[mid].ent >= 0) <=> (mid <= Popped))
  /\ [][(stack # <<>> /\ inbound' # inbound) => (inbound # <<>> /\ inbound' = Tail(inbound))]_vars
  /\ [][(InProcessAll /\ stack' = Pop(stack)) => (inbound = <<>> /\ inbound' = <<>>)]_vars

\* C13 witness: a process_all that found two messages buffered has returned to
\* the driver with both handled.
C13_Witness ==
  /\ stack = <<>>
  /\ panic = ""
  /\ arrived = 2
  /\ inbound = <<>>
  /\ trace[1].ent >= 0
  /\ trace[2].ent >= 0
  /\ trace[1].scans + Len(trace[1].reply) = 1

\* A step of process_all that pops a message which has no reply entry and which
\* no filter matches.
PopsUnmatched ==
  /\ InProcessAll
  /\ inbound # <<>>
  /\ inbound' = Tail(inbound)
  /\ Ent(Head(inbound)) = 0
  /\ FirstMatch(filters, Head(inbound)) = -1

\* What process_all does with an unmatched message: no callback, the tables as they
\* were, one send of the default reply when the message calls for one and no send
\* otherwise, the serial that send used registered nowhere, and the dispatch going on.
DefaultOnly ==
  LET msg == Head(inbound) IN
  /\ stack' = stack
  /\ UNCHANGED <<replies, filters, filter_nextid, repliesBorrowed>>
  /\ trace'[msg.mid].reply = <<>>
  /\ trace'[msg.mid].filter = <<>>
  /\ trace'[msg.mid].dflt = IF DefaultReply(msg) THEN 1 ELSE 0
  /\ IF DefaultReply(msg) THEN nextSerial' \in {nextSerial, nextSerial + 1}
     ELSE nextSerial' = nextSerial
  /\ panic' = ""

\* C14: a message popped with no reply entry and no matching filter reaches no
\* callback and changes no table; the default reply is sent once when the message
\* calls for one, its serial is not registered, a failed send changes nothing, and
\* process_all goes on to the next message; without a default reply the message is
\* dropped.
C14_UnmatchedGetsDefault == [][PopsUnmatched => DefaultOnly]_vars

\* C14, outside a running reply callback, and inside one for a message without a
\* reply serial.
C14_UnlessBorrowed ==
  [][(PopsUnmatched /\ ~(repliesBorrowed /\ Head(inbound).rs # 0)) => DefaultOnly]_vars

\* C15: the id start_receive returns is the counter's value, which is above every
\* key in the filter table, above the key of every filter whose callback is
\* running and above the id the previous start_receive returned; the counter moves
\* past the id returned and never goes back, whatever else is called in between.
C15_FreshIncreasingIds ==
  /\ [](/\ \A k \in DOMAIN filters : k < filter_nextid /\ filters[k].f <= k
        /\ \A i \in Frames("fcb") : stack[i].key < filter_nextid
        /\ ret.op = "start_receive" => ret.val < filter_nextid)
  /\ [][filter_nextid' >= filter_nextid]_vars
  /\ [][ret'.op = "start_receive" =>
          /\ ret' = Ret("start_receive", TRUE, filter_nextid)
          /\ filter_nextid' > ret'.val
          /\ ret'.val \notin DOMAIN filters
          /\ \A k \in DOMAIN filters : ret'.val > k
          /\ \A i \in Frames("fcb") : ret'.val > stack[i].key
          /\ ret.op = "start_receive" => ret'.val > ret.val
          /\ DOMAIN filters' = DOMAIN filters \cup {ret'.val}]_vars

\* C15 witness: filter 0 was called with a message and is out of the table again;
\* the start_receive made after that returned 1, not 0.
C15_Witness ==
  /\ stack = <<>>
  /\ ret = Ret("start_receive", TRUE, 1)
  /\ DOMAIN filters = {1}
  /\ \E mid \in DOMAIN trace : trace[mid].filter = <<0>>

\* A step that is a return of read_write.
ReadWriteStep == ret'.op = "read_write"

\* C16: a read_write, whether it returns Ok or Err, calls no callback and leaves
\* the reply table, the filter table, the subscription counter and the borrow of
\* the reply table as they were; it hands no message to process_all, and a failure
\* comes back as the Err value, without a panic.
C16_ReadWriteFrame ==
  /\ [][ReadWriteStep =>
          /\ UNCHANGED <<replies, filters, filter_nextid, repliesBorrowed, stack, panic>>
          /\ panic' = ""
          /\ ret'.val = 0
          /\ \A mid \in DOMAIN trace : trace'[mid] = trace[mid]
          /\ \A mid \in DOMAIN trace' \ DOMAIN trace : trace'[mid].ent = -1
          /\ ~ret'.some => UNCHANGED <<inbound, arrived, nextSerial>>]_vars
  /\ [](ret.op = "read_write" =>
          (panic = "" /\ stack = <<>> /\ ~repliesBorrowed
           /\ ENABLED SendWithReply /\ ENABLED CancelReply /\ ENABLED StopReceive))

\* C16 witness: with a reply entry and a filter registered, read_write has just
\* returned the transport's failure.
C16_Witness ==
  /\ ret = Ret("read_write", FALSE, 0)
  /\ replies # EmptyMap
  /\ filters # EmptyMap
  /\ inbound # <<>>

\* The caller of the step is the body of a filter callback.
InFilterCallback == panic = "" /\ stack # <<>> /\ Top.t = "fcb"

\* C17: while a filter callback runs, its entry is out of the registry and the
\* registry is not borrowed; start_receive and stop_receive called by the callback
\* complete, and stop_receive of the callback's own id returns None; when the
\* callback returns, its entry is back under its key, unchanged, iff it returned
\* "keep", and every other entry is as the callback left it.
C17_FilterCallbackMayReenter ==
  /\ [](\A i \in Frames("fcb") : stack[i].key \notin DOMAIN filters)
  /\ [](InFilterCallback => ~filtersBorrowed)
  /\ [][(InFilterCallback /\ (StartReceive \/ StopReceive)) =>
          (panic' = "" /\ stack' = stack /\ ret'.op \in {"start_receive", "stop_receive"})]_vars
  /\ [][(InFilterCallback /\ StopReceiveId(Top.key)) =>
          (ret' = Ret("stop_receive", FALSE, 0) /\ filters' = filters)]_vars
  /\ [][(InFilterCallback /\ stack' = Pop(stack)) =>
          LET k == Top.key IN
          /\ ret' \in {Ret("filter", TRUE, k), Ret("filter", FALSE, k)}
          /\ (k \in DOMAIN filters') <=> ret'.some
          /\ ret'.some => filters'[k] = Top.v
          /\ \A j \in (DOMAIN filters \cup DOMAIN filters') \ {k} :
               j \in DOMAIN filters /\ j \in DOMAIN filters' /\ filters'[j] = filters[j]]_vars

\* C17 witness: the callback of filter 0 has called start_receive, which returned
\* id 1; filter 1 is in the registry and filter 0 is not.
C17_Witness ==
  /\ InFilterCallback
  /\ Top.key = 0
  /\ ret = Ret("start_receive", TRUE, 1)
  /\ DOMAIN filters = {1}

\* C18: a poll and the delivery each act on the cell in one step, in whatever
\* order the two threads take them. For a call whose reply was delivered after d
\* polls: the polls before the delivery returned Pending; if there were any, the
\* waker stored by the last of them is the one the delivery woke, and the wakers
\* woken are those woken by a delivery, once each; if there was none, the
\* delivery woke no waker; and the first poll after the delivery returns Ready with
\* the result read from the delivered message. A call not yet delivered has woken
\* nobody and, once polled, holds the waker of its latest poll.
C18_NoLostWakeup ==
  /\ \A c \in DOMAIN calls :
       LET d == calls[c].deliveredAt
           n == Len(calls[c].polls) IN
       /\ Len(calls[c].wakers) = n
       /\ d >= 0 =>
            /\ \A i \in 1..d : calls[c].polls[i] = PollPending
            /\ calls[c].woken = IF d > 0 THEN calls[c].wakers[d] ELSE 0
            /\ n = d => mr[c] = ReadyOk(calls[c].delivered)
            /\ n > d => calls[c].polls[d + 1] = PollReady(ReadAll(calls[c].delivered))
       /\ (d = -1 /\ calls[c].serial # 0) =>
            /\ calls[c].woken = 0
            /\ mr[c] = IF n = 0 THEN Neither ELSE PendingW(calls[c].wakers[n])
  /\ \A w \in Wakers :
       wakes[w] = Cardinality({c \in DOMAIN calls : calls[c].deliveredAt > 0 /\ calls[c].woken = w})

\* C18 witness: the consumer has just polled, on its own thread, while process_all
\* has taken the call's entry out and is about to run the completion callback; the
\* poll stored its waker in the cell.
C18_Witness ==
  /\ stack # <<>>
  /\ Top.t = "rcb"
  /\ Top.cb.cell # 0
  /\ ret = Ret("poll", FALSE, Top.cb.cell)
  /\ mr[Top.cb.cell].st = "Pending"
  /\ Len(calls[Top.cb.cell].polls) = 2

\* The reply entry of method call c is in the reply table, under the call's serial.
Registered(c) ==
  /\ calls[c].serial \in DOMAIN replies
  /\ replies[calls[c].serial].cell = c

\* C19: when method_call returns with its send done, the call's entry is in the
\* reply table; the entry stays there through every step that is neither a
\* cancel_reply of its serial nor the dispatch of a message with its serial,
\* read_write and process_all of other messages included; and while the entry is
\* there its callback has not been called and every poll of the call's future
\* has returned Pending. Nothing counts the time or the calls.
C19_NoTimeout ==
  /\ [][\A c \in DOMAIN calls' \ DOMAIN calls :
          calls'[c].serial # 0 => (Registered(c))']_vars
  /\ [][\A c \in DOMAIN calls :
          (/\ Registered(c)
           /\ ~CancelReplyId(calls[c].serial)
           /\ ~PopsReplyTo(calls[c].serial)) => (Registered(c))']_vars
  /\ [](\A c \in DOMAIN calls :
          (calls[c].serial # 0 /\ Registered(c)) =>
            /\ Fired(calls[c].serial) = 0
            /\ calls[c].deliveredAt = -1
            /\ \A i \in DOMAIN calls[c].polls : calls[c].polls[i] = PollPending)

\* C19 witness: a call that went out under serial 1 has been polled three times
\* while a process_all handled two other messages and returned; its entry is still
\* registered.
C19_Witness ==
  \E c \in DOMAIN calls :
    /\ calls[c].serial = 1
    /\ Registered(c)
    /\ Len(calls[c].polls) = MaxPolls
    /\ stack = <<>>
    /\ inbound = <<>>
    /\ arrived = MaxMsgs
    /\ ret.op = "read_write"

\* C20: the filter callbacks running at one time are different callbacks, taken
\* from different keys, and none of those keys is in the registry; a dispatch, nested
\* or not, that calls a filter callback takes it from the registry, so it is none
\* of those already running; and a callback that returns to the dispatch that
\* called it, after any nested dispatch it made, is put back under the key it was
\* taken from iff it returned "keep".
C20_NoReentryOfRunningFilter ==
  /\ [](\A i, j \in Frames("fcb") :
          /\ stack[i].key \notin DOMAIN filters
          /\ i # j => (stack[i].key # stack[j].key /\ stack[i].v.f # stack[j].v.f))
  /\ [][(Len(stack') = Len(stack) + 1 /\ stack'[Len(stack')].t = "fcb") =>
          LET new == stack'[Len(stack')] IN
          /\ new.key \in DOMAIN filters
          /\ new.v = filters[new.key]
          /\ \A i \in Frames("fcb") : new.key # stack[i].key /\ new.v.f # stack[i].v.f]_vars
  /\ [][(InFilterCallback /\ stack' = Pop(stack)) =>
          /\ ret'.op = "filter"
          /\ ret'.val = Top.key
          /\ filters' = IF ret'.some THEN MapInsert(filters, Top.key, Top.v) ELSE filters
          /\ Top.key \notin DOMAIN filters]_vars

\* C20 witness: the callback of filter 0, whose rule matches every message, was
\* called with message 1 and called process_all; the nested dispatch handled
\* message 2 without calling it; it has now returned "keep" and is back under 0.
C20_Witness ==
  /\ ret = Ret("filter", TRUE, 0)
  /\ Len(stack) = 1
  /\ 0 \in DOMAIN filters
  /\ filters[0] = [rule |-> 0, f |-> 0]
  /\ Len(trace) = 2
  /\ trace[1].filter = <<0>>
  /\ trace[2].scans = 1
  /\ trace[2].filter # <<0>>

====
